---- MODULE Spec2Model ----
(***************************************************************************)
(* The cocaine12 worker: the event loop of worker.go (handshake, heartbeat *)
(* and disown timers, inbound dispatch, forwarding of handler output,      *)
(* Stop), together with the request/response streams and the socket the    *)
(* loop is written against.                                                *)
(***************************************************************************)
EXTENDS Integers, Sequences, FiniteSets, TLC

\* ------------------------------------------------------------------ bounds
MaxSession == 2
MaxInvokes == 1
MaxChunks == 2
MaxOps == 2
MaxHeartbeats == 2
MaxTasks == 2
MaxReply == 3
MaxInfo == 2
MaxSpin == 2
MaxFrames == 3

\* --------------------------------------------------------------- constants
heartbeatTimeout == 10
disownTimeout == 5
ErrorNoEventHandler == 200
ErrorPanicInHandler == 100

Sessions == 1..MaxSession
StopCallers == {"user"}
Registered == {"echo"}
EventNames == {"echo", "missing"}
NoEvent == "corrupted"

VARIABLES
    pc,           \* the main task: "new", "run", "select", "returned"
    err,          \* loop's local err
    runResult,    \* what Run returned, "none" before it returns
    stopped,      \* w.stopped is closed
    connClosed,   \* the socket is closed (IsClosed is ready, Read yields !ok)
    panicked,     \* the process died of "close of closed channel"
    callers,      \* each external caller of Stop: "idle", "close", "conn"
    heartbeatTimer,
    disownTimer,
    sessions,     \* w.sessions: session -> index of the task holding the stream, 0 = absent
    tasks,        \* one record per spawned handler task, with its two streams
    wire,         \* frames accepted by conn.Write(), in submission order
    chunksIn,     \* number of chunk frames the loop has received
    hbIn,         \* an inbound heartbeat frame has been delivered
    inflight,     \* by the wire's account: session -> task of its open invoke, 0 = none
    arrived,      \* by the wire's account: task -> the chunks received for it, in
                  \* order, and whether its choke has been received
    stopCause,    \* who closed w.stopped: "none", "stop", "terminate", "disown"
    firedAtStop,  \* the disown timer had already fired when w.stopped was closed
    fallbackHandler, \* w.fallbackHandler: "default" or "custom"
    readEnd,      \* the loop has received end-of-stream from conn.Read()
    replied       \* an inbound heartbeat was processed since onHeartbeat last ran

\* The resolver client: one call of Locator.Resolve and its task.
VARIABLES
    resolveTask,   \* "none", "write", "read", "send", "done"
    answers,       \* frames the locator has sent that the task has not read yet
    hungUp,        \* the locator closed the connection
    resolveresult, \* the task's resolveresult
    closed,        \* the task's closed
    Out,           \* the channel Resolve returned: values received from it, closed
    fed,           \* the frames the task has handled, in order
    eosReads       \* receives from the closed Read() channel

\* The socket's buffer under TestASocketDrain.
VARIABLES
    expected,      \* the number of frames the test enqueues
    queued,        \* the frames enqueued so far, in order
    bufIn,         \* frames enqueued on buff.in and not yet handed to buff.out
    bufOut,        \* buff.out: the frames received from it, closed
    drain,         \* the call of Drain: "idle", "waiting", "returned", "expired"
    exit           \* the test's consumer has left its range loop

locatorVars == <<resolveTask, answers, hungUp, resolveresult, closed, Out, fed,
                 eosReads>>
bufVars == <<expected, queued, bufIn, bufOut, drain, exit>>
collaborators == <<locatorVars, bufVars>>

vars == <<pc, err, runResult, stopped, connClosed, panicked, callers,
          heartbeatTimer, disownTimer, sessions, tasks, wire, chunksIn, hbIn,
          inflight, arrived, stopCause, firedAtStop, fallbackHandler,
          readEnd, replied, collaborators>>

workerVars == <<pc, err, runResult, stopped, connClosed, panicked, callers,
                heartbeatTimer, disownTimer, sessions, tasks, wire, chunksIn,
                hbIn, inflight, arrived, stopCause, firedAtStop,
                fallbackHandler, readEnd, replied>>

stopVars == <<stopped, connClosed, stopCause, firedAtStop>>
timerVars == <<heartbeatTimer, disownTimer>>
sessionVars == <<sessions, tasks>>
inbound == <<chunksIn, hbIn, inflight, arrived>>

\* ------------------------------------------------------------------ frames
Frame(type, session, task, arg) ==
    [type |-> type, session |-> session, task |-> task, arg |-> arg]

newHandshake == Frame("handshake", 0, 0, 0)
newHeartbeatMessage == Frame("heartbeat", 0, 0, 0)

InFrame(type, session, event, payload) ==
    [type |-> type, session |-> session, event |-> event, payload |-> payload]

InboundFrames ==
       {InFrame("invoke", s, e, 0) : s \in Sessions, e \in EventNames \cup {NoEvent}}
  \cup {InFrame("chunk", s, "", 0) : s \in Sessions}
  \cup {InFrame("choke", s, "", 0) : s \in Sessions}
  \cup {InFrame(t, 0, "", 0) : t \in {"heartbeat", "terminate", "invalid"}}

\* ------------------------------------------------------------------ timers
\* A time.Timer: armed with `left` time to run, and its channel C (capacity 1)
\* holding a value or not. Stop and Reset leave a value already in C there.
StoppedTimer == [armed |-> FALSE, left |-> 0, fired |-> FALSE]

TimerReset(t, d) == [t EXCEPT !.armed = TRUE, !.left = d]

TimerStop(t) == [t EXCEPT !.armed = FALSE]

TimerReceive(t) == [t EXCEPT !.fired = FALSE]

\* ------------------------------------------------------------------ socket
\* select { case conn.Write() <- m: ; case <-conn.IsClosed(): }
SocketSend(w, isClosed, m) == IF isClosed THEN w ELSE Append(w, m)

\* A ResolveResult: success and the decoded record (0 is the zero value).
ZeroResult == [success |-> FALSE, info |-> 0]

NoChannel == [got |-> <<>>, closed |-> FALSE]

LocatorIdle ==
    /\ resolveTask = "none"
    /\ answers = <<>>
    /\ hungUp = FALSE
    /\ resolveresult = ZeroResult
    /\ closed = FALSE
    /\ Out = NoChannel
    /\ fed = <<>>
    /\ eosReads = 0

BufIdle ==
    /\ expected = 0
    /\ queued = <<>>
    /\ bufIn = <<>>
    /\ bufOut = NoChannel
    /\ drain = "idle"
    /\ exit = FALSE

WorkerInit ==
    /\ pc = "new"
    /\ err = "nil"
    /\ runResult = "none"
    /\ stopped = FALSE
    /\ connClosed = FALSE
    /\ panicked = FALSE
    /\ callers = [c \in StopCallers |-> "idle"]
    /\ heartbeatTimer = StoppedTimer
    /\ disownTimer = StoppedTimer
    /\ sessions = [s \in Sessions |-> 0]
    /\ tasks = <<>>
    /\ wire = <<>>
    /\ chunksIn = 0
    /\ hbIn = FALSE
    /\ inflight = [s \in Sessions |-> 0]
    /\ arrived = <<>>
    /\ stopCause = "none"
    /\ firedAtStop = FALSE
    /\ readEnd = FALSE
    /\ replied = FALSE

Init ==
    /\ WorkerInit
    /\ fallbackHandler \in {"default", "custom"}
    /\ LocatorIdle
    /\ BufIdle

\* ------------------------------------------------------------- the worker
\* newWorker: the timers are created stopped, then the handshake is sent.
sendHandshake ==
    /\ wire' = SocketSend(wire, connClosed, newHandshake)
    /\ pc' = "run"

NewWorker ==
    /\ pc = "new"
    /\ ~panicked
    /\ sendHandshake
    /\ UNCHANGED <<err, runResult, stopVars, panicked, callers, timerVars,
                   sessionVars, inbound, fallbackHandler,
                   readEnd, replied, collaborators>>

\* onHeartbeat: send a heartbeat, then reset both timers. hb is the heartbeat
\* timer as the caller left it.
onHeartbeatMut(hb) ==
    /\ wire' = SocketSend(wire, connClosed, newHeartbeatMessage)
    /\ disownTimer' = disownTimer
    /\ heartbeatTimer' = TimerReset(hb, heartbeatTimeout)
    /\ replied' = FALSE

onHeartbeat(hb) ==
    /\ wire' = SocketSend(wire, connClosed, newHeartbeatMessage)
    /\ disownTimer' = TimerReset(disownTimer, disownTimeout)
    /\ heartbeatTimer' = TimerReset(hb, heartbeatTimeout)
    /\ replied' = FALSE

\* Run -> loop(): the first onHeartbeat, before the select loop is entered.
RunMut ==
    /\ pc = "run"
    /\ ~panicked
    /\ pc' = "select"
    /\ UNCHANGED <<err, runResult, stopVars, panicked, callers, sessionVars,
                   inbound, fallbackHandler,
                   readEnd, replied, collaborators, wire, timerVars>>

Run ==
    /\ pc = "run"
    /\ ~panicked
    /\ onHeartbeat(heartbeatTimer)
    /\ pc' = "select"
    /\ UNCHANGED <<err, runResult, stopVars, panicked, callers, sessionVars,
                   inbound, fallbackHandler, readEnd, collaborators>>

\* Stop() as the loop calls it from onDisown and onTerminate.
Stop(cause, fired) ==
    IF stopped
    THEN UNCHANGED stopVars
    ELSE /\ stopped' = TRUE
         /\ connClosed' = TRUE
         /\ stopCause' = cause
         /\ firedAtStop' = fired

\* Stop() called by another task: isStopped(), close(w.stopped), conn.Close()
\* are three steps the loop and the other callers interleave with.
StopCheck(c) ==
    /\ pc # "new"
    /\ ~panicked
    /\ callers[c] = "idle"
    /\ callers' = [callers EXCEPT ![c] = IF stopped THEN "idle" ELSE "close"]
    /\ UNCHANGED <<pc, err, runResult, stopVars, panicked, timerVars,
                   sessionVars, wire, inbound, fallbackHandler,
                   readEnd, replied, collaborators>>

StopClose(c) ==
    /\ ~panicked
    /\ callers[c] = "close"
    /\ IF stopped
       THEN /\ panicked' = TRUE
            /\ UNCHANGED <<callers, stopVars>>
       ELSE /\ stopped' = TRUE
            /\ stopCause' = "stop"
            /\ firedAtStop' = disownTimer.fired
            /\ callers' = [callers EXCEPT ![c] = "conn"]
            /\ UNCHANGED <<panicked, connClosed>>
    /\ UNCHANGED <<pc, err, runResult, timerVars, sessionVars, wire, inbound,
                   fallbackHandler, readEnd, replied, collaborators>>

StopConnCloseMut(c) ==
    /\ ~panicked
    /\ callers[c] = "conn"
    /\ callers' = [callers EXCEPT ![c] = "idle"]
    /\ UNCHANGED <<pc, err, runResult, stopVars, panicked,
                   timerVars, sessionVars, wire, inbound, fallbackHandler,
                   readEnd, replied, collaborators>>

StopConnClose(c) ==
    /\ ~panicked
    /\ callers[c] = "conn"
    /\ connClosed' = TRUE
    /\ callers' = [callers EXCEPT ![c] = "idle"]
    /\ UNCHANGED <<pc, err, runResult, stopped, stopCause, firedAtStop, panicked,
                   timerVars, sessionVars, wire, inbound, fallbackHandler,
                   readEnd, replied, collaborators>>

\* The peer closes the transport.
PeerClose ==
    /\ ~panicked
    /\ ~connClosed
    /\ connClosed' = TRUE
    /\ UNCHANGED <<pc, err, runResult, stopped, stopCause, firedAtStop, panicked,
                   callers, timerVars, sessionVars, wire, inbound, fallbackHandler,
                   readEnd, replied, collaborators>>

\* ------------------------------------------------------------ time passing
Beats == Cardinality({i \in DOMAIN wire : wire[i].type = "heartbeat"})

Expired(t) == [armed |-> FALSE, left |-> 0, fired |-> TRUE]

Elapse(t, d) == IF t.armed THEN [t EXCEPT !.left = t.left - d] ELSE t

HeartbeatExpire ==
    /\ pc = "select"
    /\ ~panicked
    /\ heartbeatTimer.armed
    /\ disownTimer.armed => heartbeatTimer.left <= disownTimer.left
    /\ Beats < MaxHeartbeats
    /\ heartbeatTimer' = Expired(heartbeatTimer)
    /\ disownTimer' = Elapse(disownTimer, heartbeatTimer.left)
    /\ UNCHANGED <<pc, err, runResult, stopVars, panicked, callers, sessionVars,
                   wire, inbound, fallbackHandler,
                   readEnd, replied, collaborators>>

DisownExpire ==
    /\ pc = "select"
    /\ ~panicked
    /\ disownTimer.armed
    /\ heartbeatTimer.armed => disownTimer.left <= heartbeatTimer.left
    /\ disownTimer' = Expired(disownTimer)
    /\ heartbeatTimer' = Elapse(heartbeatTimer, disownTimer.left)
    /\ UNCHANGED <<pc, err, runResult, stopVars, panicked, callers, sessionVars,
                   wire, inbound, fallbackHandler,
                   readEnd, replied, collaborators>>

\* ------------------------------------------------- the loop's select cases
\* case <-w.heartbeatTimer.C
LoopHeartbeat ==
    /\ pc = "select"
    /\ ~panicked
    /\ heartbeatTimer.fired
    /\ onHeartbeat(TimerReceive(heartbeatTimer))
    /\ UNCHANGED <<pc, err, runResult, stopVars, panicked, callers, sessionVars,
                   inbound, fallbackHandler, readEnd, collaborators>>

\* case <-w.disownTimer.C
LoopDisown ==
    /\ pc = "select"
    /\ ~panicked
    /\ disownTimer.fired
    /\ disownTimer' = TimerReceive(disownTimer)
    /\ Stop("disown", TRUE)
    /\ err' = "ErrDisowned"
    /\ UNCHANGED <<pc, runResult, panicked, callers, heartbeatTimer, sessionVars,
                   wire, inbound, fallbackHandler,
                   readEnd, replied, collaborators>>

\* case <-w.stopped
LoopStopped ==
    /\ pc = "select"
    /\ ~panicked
    /\ stopped
    /\ runResult' = err
    /\ pc' = "returned"
    /\ UNCHANGED <<err, stopVars, panicked, callers, timerVars, sessionVars,
                   wire, inbound, fallbackHandler,
                   readEnd, replied, collaborators>>

\* ------------------------------------------------------- session streams
\* A handler task with the request stream and the response stream it was given.
\*   queue, rclosed      the request stream: buffered payloads, closed
\*   finished, pend      the response stream: finished, frames of the
\*                       operation in progress not yet handed over
\*   readLog, eos, recovered, trapped, ops   what the task has done so far
newTask(session, event, code) ==
    [session |-> session, event |-> event, code |-> code,
     queue |-> <<>>, rclosed |-> FALSE,
     finished |-> FALSE, pend |-> <<>>,
     pc |-> "run", ops |-> 0,
     readLog |-> <<>>, eos |-> FALSE, recovered |-> FALSE, trapped |-> FALSE]

\* requestStream.push
push(t, payload) ==
    IF t.rclosed THEN t ELSE [t EXCEPT !.queue = Append(@, payload)]

\* requestStream.Close
closeRequest(t) == [t EXCEPT !.rclosed = TRUE]

\* Request.Read: a buffered message first, then end-of-stream, else a timeout.
ReadRequest(t) ==
    IF t.queue # <<>>
    THEN [t EXCEPT !.readLog = Append(@, Head(t.queue)), !.queue = Tail(@)]
    ELSE IF t.rclosed THEN [t EXCEPT !.eos = TRUE] ELSE t

\* ResponseStream.Write / ErrorMsg / Close: the frames the call hands over.
\* ErrorMsg sends the error frame and finishes the stream with its choke.
ResponseWrite(t, i, arg) ==
    IF t.finished THEN <<>> ELSE <<Frame("chunk", t.session, i, arg)>>

ResponseErrorMsg(t, i, code) ==
    IF t.finished THEN <<>>
    ELSE <<Frame("error", t.session, i, code), Frame("choke", t.session, i, 0)>>

ResponseClose(t, i) ==
    IF t.finished THEN <<>> ELSE <<Frame("choke", t.session, i, 0)>>

\* One frame of the operation in progress has left the response stream.
Handed(t) ==
    [t EXCEPT !.pend = Tail(@),
              !.finished = @ \/ Head(t.pend).type = "choke"]

\* ------------------------------------------------------------- onMessage
\* The handler looked up for an event: the registered one, or the fallback.
HandlerFor(event) ==
    IF event \in Registered THEN "user"
    ELSE IF fallbackHandler = "default" THEN "default" ELSE "user"

\* case chunkType
onChunkMut(msg) == UNCHANGED <<tasks, sessions>>

onChunkAnyMut(msg) ==
    /\ IF sessions[msg.session] # 0
       THEN tasks' = [tasks EXCEPT ![sessions[msg.session]] = push(@, msg.payload)]
       ELSE IF tasks # <<>>
       THEN tasks' = [tasks EXCEPT ![Len(tasks)] = push(@, msg.payload)]
       ELSE UNCHANGED tasks
    /\ UNCHANGED sessions

onChunk(msg) ==
    /\ IF sessions[msg.session] # 0
       THEN tasks' = [tasks EXCEPT ![sessions[msg.session]] = push(@, msg.payload)]
       ELSE UNCHANGED tasks
    /\ UNCHANGED sessions

\* case chokeType
onChokeMut(msg) == UNCHANGED <<tasks, sessions>>

onChoke(msg) ==
    IF sessions[msg.session] # 0
    THEN /\ tasks' = [tasks EXCEPT ![sessions[msg.session]] = closeRequest(@)]
         /\ sessions' = [sessions EXCEPT ![msg.session] = 0]
    ELSE UNCHANGED <<tasks, sessions>>

\* case invokeType
onInvoke(msg) ==
    IF msg.event = NoEvent
    THEN UNCHANGED <<tasks, sessions>>
    ELSE /\ tasks' = Append(tasks, newTask(msg.session, msg.event,
                                           HandlerFor(msg.event)))
         /\ sessions' = [sessions EXCEPT ![msg.session] = Len(tasks) + 1]

onMessage(msg) ==
    CASE msg.type = "chunk" ->
            onChunk(msg) /\ UNCHANGED <<stopVars, disownTimer, replied>>
      [] msg.type = "choke" ->
            onChoke(msg) /\ UNCHANGED <<stopVars, disownTimer, replied>>
      [] msg.type = "invoke" ->
            onInvoke(msg) /\ UNCHANGED <<stopVars, disownTimer, replied>>
      [] msg.type = "heartbeat" ->
            /\ disownTimer' = TimerStop(disownTimer)
            /\ replied' = TRUE
            /\ UNCHANGED <<tasks, sessions, stopVars>>
      [] msg.type = "terminate" ->
            /\ Stop("terminate", disownTimer.fired)
            /\ UNCHANGED <<tasks, sessions, disownTimer, replied>>
      [] OTHER ->
            UNCHANGED <<tasks, sessions, stopVars, disownTimer, replied>>

\* The payload of a chunk is its place in the arrival order.
Arrived(msg) ==
    IF msg.type = "chunk" THEN [msg EXCEPT !.payload = chunksIn + 1] ELSE msg

\* What the wire has carried, recorded apart from what onMessage makes of it.
Record(msg) ==
    /\ chunksIn' = IF msg.type = "chunk" THEN chunksIn + 1 ELSE chunksIn
    /\ hbIn' = (hbIn \/ msg.type = "heartbeat")
    /\ inflight' =
          IF msg.type = "invoke" /\ msg.event # NoEvent
          THEN [inflight EXCEPT ![msg.session] = Len(arrived) + 1]
          ELSE IF msg.type = "choke"
          THEN [inflight EXCEPT ![msg.session] = 0]
          ELSE inflight
    /\ arrived' =
          IF msg.type = "invoke" /\ msg.event # NoEvent
          THEN Append(arrived, [chunks |-> <<>>, choked |-> FALSE])
          ELSE IF msg.type = "chunk" /\ inflight[msg.session] # 0
          THEN [arrived EXCEPT ![inflight[msg.session]].chunks = Append(@, msg.payload)]
          ELSE IF msg.type = "choke" /\ inflight[msg.session] # 0
          THEN [arrived EXCEPT ![inflight[msg.session]].choked = TRUE]
          ELSE arrived

\* case msg, ok := <-w.conn.Read(), ok; n bounds the invocations of a run.
LoopReadUpTo(m, n) ==
    /\ pc = "select"
    /\ ~panicked
    /\ ~connClosed
    /\ m.type = "chunk" => chunksIn < MaxChunks
    /\ m.type = "invoke" => Len(tasks) < n
    /\ Record(Arrived(m))
    /\ onMessage(Arrived(m))
    /\ UNCHANGED <<pc, err, runResult, panicked, callers, heartbeatTimer, wire,
                   fallbackHandler, readEnd, collaborators>>

LoopRead(m) == LoopReadUpTo(m, MaxInvokes)

\* case msg, ok := <-w.conn.Read(), !ok: the closed channel is ready at every
\* select and the case does nothing.
LoopReadEnd ==
    /\ pc = "select"
    /\ ~panicked
    /\ connClosed
    /\ readEnd' = TRUE
    /\ UNCHANGED <<pc, err, runResult, stopVars, panicked, callers, timerVars,
                   sessionVars, wire, inbound, fallbackHandler, replied,
                   collaborators>>

\* case outcoming := <-w.fromHandlers, then the inner select on the socket:
\* the frame goes to conn.Write(), or is dropped when the socket is closed.
LoopForwardMut(i) ==
    /\ pc = "select"
    /\ ~panicked
    /\ i \in DOMAIN tasks
    /\ tasks[i].pend # <<>>
    /\ wire' = IF connClosed THEN wire
               ELSE SubSeq(wire, 1, 2) \o <<Head(tasks[i].pend)>>
                        \o SubSeq(wire, 3, Len(wire))
    /\ tasks' = [tasks EXCEPT ![i] = Handed(@)]
    /\ UNCHANGED <<pc, err, runResult, stopVars, panicked, callers, timerVars,
                   sessions, inbound, fallbackHandler, readEnd, replied,
                   collaborators>>

LoopForward(i) ==
    /\ pc = "select"
    /\ ~panicked
    /\ i \in DOMAIN tasks
    /\ tasks[i].pend # <<>>
    /\ wire' = SocketSend(wire, connClosed, Head(tasks[i].pend))
    /\ tasks' = [tasks EXCEPT ![i] = Handed(@)]
    /\ UNCHANGED <<pc, err, runResult, stopVars, panicked, callers, timerVars,
                   sessions, inbound, fallbackHandler,
                   readEnd, replied, collaborators>>

\* --------------------------------------------------------- handler tasks
\* The response stream gives a frame up once the socket's closed signal fires.
ResponseCanDrop == connClosed

ResponseDrop(i) ==
    /\ ~panicked
    /\ i \in DOMAIN tasks
    /\ tasks[i].pend # <<>>
    /\ ResponseCanDrop
    /\ tasks' = [tasks EXCEPT ![i] = Handed(@)]
    /\ UNCHANGED <<pc, err, runResult, stopVars, panicked, callers, timerVars,
                   sessions, wire, inbound, fallbackHandler,
                   readEnd, replied, collaborators>>

\* The task is between two calls of user code.
Running(i) ==
    /\ ~panicked
    /\ i \in DOMAIN tasks
    /\ tasks[i].pc = "run"
    /\ tasks[i].pend = <<>>

TaskStep(i, t) ==
    /\ tasks' = [tasks EXCEPT ![i] = t]
    /\ UNCHANGED <<pc, err, runResult, stopVars, panicked, callers, timerVars,
                   sessions, wire, inbound, fallbackHandler,
                   readEnd, replied, collaborators>>

Op(t) == [t EXCEPT !.ops = @ + 1]

HandlerRead(i) ==
    /\ Running(i)
    /\ tasks[i].code = "user"
    /\ tasks[i].ops < MaxOps
    /\ TaskStep(i, Op(ReadRequest(tasks[i])))

HandlerWrite(i) ==
    /\ Running(i)
    /\ tasks[i].code = "user"
    /\ tasks[i].ops < MaxOps
    /\ TaskStep(i, Op([tasks[i] EXCEPT
                         !.pend = ResponseWrite(tasks[i], i, tasks[i].ops + 1)]))

HandlerErrorMsg(i) ==
    /\ Running(i)
    /\ tasks[i].code = "user"
    /\ tasks[i].ops < MaxOps
    /\ TaskStep(i, Op([tasks[i] EXCEPT !.pend = ResponseErrorMsg(tasks[i], i, 1)]))

HandlerClose(i) ==
    /\ Running(i)
    /\ tasks[i].code = "user"
    /\ tasks[i].ops < MaxOps
    /\ TaskStep(i, Op([tasks[i] EXCEPT !.pend = ResponseClose(tasks[i], i)]))

HandlerReturn(i) ==
    /\ Running(i)
    /\ tasks[i].code = "user"
    /\ TaskStep(i, [tasks[i] EXCEPT !.pc = "done"])

\* recoverTrap: the deferred trap of a task whose handler panicked.
recoverTrapMut(t, i) == [t EXCEPT !.pc = "done"]

recoverTrapRawMut(t, i) ==
    [t EXCEPT !.pend = <<Frame("error", t.session, i, ErrorPanicInHandler),
                         Frame("choke", t.session, i, 0)>>,
              !.pc = "done"]

recoverTrap(t, i) ==
    [t EXCEPT !.pend = ResponseErrorMsg(t, i, ErrorPanicInHandler),
              !.pc = "done"]

\* recovered notes the panic, trapped one that came before the response stream
\* was finished.
HandlerPanic(i) ==
    /\ Running(i)
    /\ tasks[i].code = "user"
    /\ TaskStep(i, [recoverTrap(tasks[i], i) EXCEPT !.recovered = TRUE,
                                                   !.trapped = ~tasks[i].finished])

\* DefaultFallbackEventHandler, run by callFallbackHandler.
DefaultFallbackEventHandlerMut(t, i) ==
    [t EXCEPT !.pend = ResponseErrorMsg(t, i, ErrorPanicInHandler),
              !.pc = "done"]

DefaultFallbackEventHandler(t, i) ==
    [t EXCEPT !.pend = ResponseErrorMsg(t, i, ErrorNoEventHandler),
              !.pc = "done"]

callFallbackHandler(i) ==
    /\ Running(i)
    /\ tasks[i].code = "default"
    /\ TaskStep(i, DefaultFallbackEventHandler(tasks[i], i))

\* ---------------------------------------------------- the resolver client
\* The payload of a chunk: the packed record n, or bytes that do not decode.
Packed(n) == <<"packed", n>>

Junk == <<"junk">>

LocatorFrames ==
       {[type |-> "chunk", payload |-> Packed(n)] : n \in 1..MaxInfo}
  \cup {[type |-> "chunk", payload |-> Junk], [type |-> "choke", payload |-> <<>>]}

\* What the locator may send before it falls silent or hangs up.
Replies == UNION {[1..n -> LocatorFrames] : n \in 0..MaxReply}

\* unpackchunk: the decoded record, or the zero value when Decode fails or
\* panics; success is not a field of the wire record.
unpackchunk(chunk) ==
    IF chunk[1] = "packed"
    THEN [success |-> FALSE, info |-> chunk[2]]
    ELSE ZeroResult

\* Resolve: make the channel and start the task.
Resolve ==
    /\ resolveTask = "none"
    /\ resolveTask' = "write"
    /\ Out' = NoChannel
    /\ resolveresult' = ZeroResult
    /\ UNCHANGED <<workerVars, bufVars, answers, hungUp, closed, fed, eosReads>>

\* locator.SocketIO.Write() <- raw; closed := false
ResolveWrite ==
    /\ resolveTask = "write"
    /\ resolveTask' = "read"
    /\ closed' = FALSE
    /\ UNCHANGED <<workerVars, bufVars, answers, hungUp, resolveresult, Out, fed,
                   eosReads>>

\* for _, item := range msgs: every item of the batch is handled, also those
\* that follow a choke.
RECURSIVE Handle(_, _)
Handle(st, msgs) ==
    IF msgs = <<>> THEN st
    ELSE LET item == Head(msgs) IN
         Handle(IF item.type = "chunk"
                THEN [st EXCEPT !.resolveresult =
                         [unpackchunk(item.payload) EXCEPT !.success = TRUE]]
                ELSE [st EXCEPT !.closed = TRUE],
                Tail(msgs))

\* answer := <-locator.SocketIO.Read(); msgs := locator.unpacker.Feed(answer),
\* the next k frames the locator sent.
ResolveRead(k) ==
    /\ resolveTask = "read"
    /\ k \in 1..Len(answers)
    /\ LET msgs == SubSeq(answers, 1, k)
           st == Handle([resolveresult |-> resolveresult, closed |-> closed], msgs)
       IN /\ resolveresult' = st.resolveresult
          /\ closed' = st.closed
          /\ fed' = fed \o msgs
          /\ answers' = SubSeq(answers, k + 1, Len(answers))
          /\ resolveTask' = IF st.closed THEN "send" ELSE "read"
    /\ UNCHANGED <<workerVars, bufVars, hungUp, Out, eosReads>>

\* The locator closes the connection: Read() is closed once it is drained.
LocatorHangup ==
    /\ ~hungUp
    /\ hungUp' = TRUE
    /\ UNCHANGED <<workerVars, bufVars, resolveTask, answers, resolveresult,
                   closed, Out, fed, eosReads>>

\* answer := <-locator.SocketIO.Read() on the closed channel: the zero value,
\* from which Feed takes no message; closed stays false.
ResolveReadEnd ==
    /\ resolveTask = "read"
    /\ answers = <<>>
    /\ hungUp
    /\ eosReads < MaxSpin
    /\ eosReads' = eosReads + 1
    /\ UNCHANGED <<workerVars, bufVars, resolveTask, answers, hungUp,
                   resolveresult, closed, Out, fed>>

\* Out <- resolveresult, taken by the caller; the task returns.
ResolveSend ==
    /\ resolveTask = "send"
    /\ Out' = [Out EXCEPT !.got = Append(@, resolveresult)]
    /\ resolveTask' = "done"
    /\ UNCHANGED <<workerVars, bufVars, answers, hungUp, resolveresult, closed,
                   fed, eosReads>>

\* ---------------------------------------------------- the socket's buffer
Messages == {"m1", "m2"}

\* buff.in <- msg, the enqueue loop of the test.
TestEnqueue(m) ==
    /\ drain = "idle"
    /\ Len(queued) < expected
    /\ bufIn' = Append(bufIn, m)
    /\ queued' = Append(queued, m)
    /\ UNCHANGED <<workerVars, locatorVars, expected, bufOut, drain, exit>>

\* go func() { buff.Drain(1 * time.Second); ... }, after the enqueue loop.
Drain ==
    /\ drain = "idle"
    /\ Len(queued) = expected
    /\ drain' = "waiting"
    /\ UNCHANGED <<workerVars, locatorVars, expected, queued, bufIn, bufOut, exit>>

\* for m := range buff.out: the buffer hands its oldest frame to the consumer.
BufDeliver ==
    /\ Len(queued) = expected
    /\ bufIn # <<>>
    /\ ~bufOut.closed
    /\ bufOut' = [bufOut EXCEPT !.got = Append(@, Head(bufIn))]
    /\ bufIn' = Tail(bufIn)
    /\ UNCHANGED <<workerVars, locatorVars, expected, queued, drain, exit>>

\* Drain returns once every enqueued frame has been handed over, and closes
\* the output side.
DrainReturnMut ==
    /\ drain = "waiting"
    /\ drain' = "returned"
    /\ bufOut' = [bufOut EXCEPT !.closed = TRUE]
    /\ UNCHANGED <<workerVars, locatorVars, expected, queued, bufIn, exit>>

DrainReturn ==
    /\ drain = "waiting"
    /\ bufIn = <<>>
    /\ drain' = "returned"
    /\ bufOut' = [bufOut EXCEPT !.closed = TRUE]
    /\ UNCHANGED <<workerVars, locatorVars, expected, queued, bufIn, exit>>

\* The grace period ends with frames still enqueued: the buffer is torn down.
DrainExpire ==
    /\ drain = "waiting"
    /\ bufIn # <<>>
    /\ drain' = "expired"
    /\ bufOut' = [bufOut EXCEPT !.closed = TRUE]
    /\ UNCHANGED <<workerVars, locatorVars, expected, queued, bufIn, exit>>

\* The range loop ends on the closed channel; close(exit); <-exit.
TestExit ==
    /\ bufOut.closed
    /\ ~exit
    /\ exit' = TRUE
    /\ UNCHANGED <<workerVars, locatorVars, expected, queued, bufIn, bufOut, drain>>

\* ------------------------------------------------------- specifications
ControlFrames ==
    {m \in InboundFrames : m.type \in {"heartbeat", "terminate", "invalid"}}

Stopping ==
    \/ \E c \in StopCallers : StopCheck(c) \/ StopClose(c) \/ StopConnClose(c)
    \/ PeerClose
    \/ DisownExpire
    \/ LoopDisown
    \/ LoopStopped
    \/ LoopReadEnd

Tasks ==
    \E i \in 1..MaxInvokes :
        \/ LoopForward(i)
        \/ ResponseDrop(i)
        \/ HandlerRead(i)
        \/ HandlerWrite(i)
        \/ HandlerErrorMsg(i)
        \/ HandlerClose(i)
        \/ HandlerReturn(i)
        \/ HandlerPanic(i)
        \/ callFallbackHandler(i)

\* The worker with its sessions, over its first heartbeat interval.
Next ==
    \/ NewWorker
    \/ Run
    \/ Stopping
    \/ \E m \in InboundFrames : LoopRead(m)
    \/ Tasks

Spec == Init /\ [][Next]_vars

\* The worker's life cycle over several heartbeat intervals, with no invocation.
NextLife ==
    \/ NewWorker
    \/ Run
    \/ Stopping
    \/ HeartbeatExpire
    \/ LoopHeartbeat
    \/ \E m \in ControlFrames : LoopRead(m)

SpecLife == Init /\ [][NextLife]_vars

\* Two invocations answered side by side over several heartbeat intervals: the
\* handlers write, the loop forwards their frames between its own heartbeats.
PairFrames ==
    {m \in InboundFrames :
        \/ m.type = "invoke" /\ m.event \in Registered
        \/ m.type = "heartbeat"}

NextPair ==
    \/ NewWorker
    \/ Run
    \/ PeerClose
    \/ DisownExpire
    \/ HeartbeatExpire
    \/ LoopHeartbeat
    \/ LoopDisown
    \/ LoopStopped
    \/ \E m \in PairFrames : LoopReadUpTo(m, MaxTasks)
    \/ \E i \in 1..MaxTasks :
          \/ LoopForward(i)
          \/ ResponseDrop(i)
          \/ HandlerWrite(i)
          \/ HandlerErrorMsg(i)
          \/ HandlerClose(i)
          \/ HandlerReturn(i)

InitPair == Init /\ fallbackHandler = "default"

SpecPair == InitPair /\ [][NextPair]_vars

\* One call of Resolve against a locator that sends some frames.
InitLocator ==
    /\ WorkerInit
    /\ fallbackHandler = "default"
    /\ BufIdle
    /\ resolveTask = "none"
    /\ answers \in Replies
    /\ hungUp = FALSE
    /\ resolveresult = ZeroResult
    /\ closed = FALSE
    /\ Out = NoChannel
    /\ fed = <<>>
    /\ eosReads = 0

NextLocator ==
    \/ Resolve
    \/ ResolveWrite
    \/ \E k \in 1..MaxReply : ResolveRead(k)
    \/ LocatorHangup
    \/ ResolveReadEnd
    \/ ResolveSend

SpecLocator == InitLocator /\ [][NextLocator]_vars

\* The socket's buffer through one run of the drain test.
InitBuf ==
    /\ WorkerInit
    /\ fallbackHandler = "default"
    /\ LocatorIdle
    /\ expected \in 0..MaxFrames
    /\ queued = <<>>
    /\ bufIn = <<>>
    /\ bufOut = NoChannel
    /\ drain = "idle"
    /\ exit = FALSE

NextBuf ==
    \/ \E m \in Messages : TestEnqueue(m)
    \/ Drain
    \/ BufDeliver
    \/ DrainReturn
    \/ DrainExpire
    \/ TestExit

SpecBuf == InitBuf /\ [][NextBuf]_vars

\* A call of Stop that has closed w.stopped goes on to close the socket, and a
\* response stream whose select has a ready case takes one.
FairSpec ==
    /\ Spec
    /\ \A c \in StopCallers : WF_vars(StopConnClose(c))
    /\ \A i \in 1..MaxInvokes : WF_vars(ResponseDrop(i))

\* Time passes, and the select of loop() picks every case that stays ready.
FairLife ==
    /\ SpecLife
    /\ WF_vars(DisownExpire)
    /\ WF_vars(HeartbeatExpire)
    /\ WF_vars(LoopHeartbeat)
    /\ WF_vars(LoopDisown)
    /\ WF_vars(LoopStopped)

\* ---------------------------------------------------------------- claims
\* C1 (as stated): when Run has returned and no inbound heartbeat frame was
\* ever delivered, Run has returned ErrDisowned.
SilenceMeansDisowned ==
    (runResult # "none" /\ ~hbIn) => runResult = "ErrDisowned"

Quiet ==
    /\ ~hbIn
    /\ stopCause # "terminate"
    /\ \A c \in StopCallers : callers[c] = "idle"

\* C1 (amended): if no inbound heartbeat frame is ever delivered, Stop() is
\* never called from outside and no terminate frame is delivered, then once the
\* loop has sent its first heartbeat Run eventually returns ErrDisowned.
DisownedWhenQuiet ==
    ([]Quiet) => ((pc = "select") ~> (runResult = "ErrDisowned"))

DisownedWitness ==
    /\ runResult = "ErrDisowned"
    /\ Quiet
    /\ stopCause = "disown"
    /\ Beats >= 1

\* C2: when w.stopped was closed by Stop() or by a terminate frame at a moment
\* when the disown timer had not fired, Run returns nil.
CleanStopReturnsNil ==
    (runResult # "none" /\ stopCause \in {"stop", "terminate"} /\ ~firedAtStop)
        => runResult = "nil"

\* C3: no call of Stop panics by closing w.stopped a second time, and once
\* every call has returned after w.stopped was closed the socket is closed.
StopIdempotent ==
    /\ ~panicked
    /\ (stopped /\ \A c \in StopCallers : callers[c] = "idle") => connClosed

\* The frames of task i on the wire, in order.
TaskWire(i) == SelectSeq(wire, LAMBDA f : f.task = i)

IsPrefix(a, b) == Len(a) <= Len(b) /\ a = SubSeq(b, 1, Len(a))

\* Task i has returned, every frame it produced was taken by the loop and none
\* was given up to a closed socket.
Delivered(i) == tasks[i].pc = "done" /\ tasks[i].pend = <<>> /\ ~connClosed

\* C4: the handshake is the first frame on the wire and the first heartbeat
\* the second, so every frame of a handler task comes after both.
HandshakeThenHeartbeat ==
    /\ Len(wire) >= 1 => wire[1] = newHandshake
    /\ Len(wire) >= 2 => wire[2] = newHeartbeatMessage

HandlerFrameOnWire == \E k \in DOMAIN wire : wire[k].task # 0

FallbackReply(i) ==
    <<Frame("error", tasks[i].session, i, ErrorNoEventHandler),
      Frame("choke", tasks[i].session, i, 0)>>

Unhandled(i) == tasks[i].event \notin Registered /\ fallbackHandler = "default"

\* C5: for an invoke of an event with no registered handler, under the default
\* fallback handler, the frames of the session on the wire are an error frame
\* with code 200 and then a choke frame of the same session.
NoHandlerReply ==
    \A i \in DOMAIN tasks :
        Unhandled(i) =>
            /\ IsPrefix(TaskWire(i), FallbackReply(i))
            /\ Delivered(i) => TaskWire(i) = FallbackReply(i)

NoHandlerWitness ==
    \E i \in DOMAIN tasks :
        Unhandled(i) /\ Delivered(i) /\ TaskWire(i) = FallbackReply(i)

PanicReply(i) ==
    <<Frame("error", tasks[i].session, i, ErrorPanicInHandler),
      Frame("choke", tasks[i].session, i, 0)>>

LastTwo(w) == IF Len(w) >= 2 THEN SubSeq(w, Len(w) - 1, Len(w)) ELSE <<>>

\* C6: when a handler task panicked before finishing its response stream, the
\* last frames of the task on the wire are an error frame with code 100 and
\* then a choke frame, both of its session.
PanicTrapped ==
    \A i \in DOMAIN tasks :
        (tasks[i].trapped /\ Delivered(i)) => LastTwo(TaskWire(i)) = PanicReply(i)

PanicWitness ==
    \E i \in DOMAIN tasks :
        /\ tasks[i].trapped
        /\ Delivered(i)
        /\ tasks[i].event \notin Registered
        /\ Len(TaskWire(i)) = 3

\* Task i is inside Write, ErrorMsg or Close with a frame not yet handed over.
Sending(i) == i \in DOMAIN tasks /\ tasks[i].pend # <<>>

StoppedEmptiesSessions ==
    pc = "returned" => \A s \in Sessions : sessions[s] = 0

\* C9: what the handler of an in-flight session has read, followed by what its
\* request stream still holds, is the chunks received for the session since
\* its invoke, in arrival order; at end-of-stream it has read them all.
RequestInOrder ==
    \A i \in DOMAIN tasks :
        /\ tasks[i].readLog \o tasks[i].queue = arrived[i].chunks
        /\ tasks[i].eos => (arrived[i].choked /\ tasks[i].readLog = arrived[i].chunks)

RequestInOrderWitness ==
    \E i \in DOMAIN tasks :
        /\ tasks[i].eos
        /\ Len(tasks[i].readLog) = 1
        /\ chunksIn = MaxChunks

FinishedStaysSilent ==
    \A i \in DOMAIN tasks :
        LET w == TaskWire(i) IN
        /\ tasks[i].finished => tasks[i].pend = <<>>
        /\ \A k \in DOMAIN w : w[k].type = "choke" => k = Len(w)
        /\ \A k \in DOMAIN w :
              w[k].type = "error" =>
                  /\ k >= Len(w) - 1
                  /\ k < Len(w) => w[Len(w)].type = "choke"

FinishedThenPanicWitness ==
    \E i \in DOMAIN tasks :
        /\ tasks[i].recovered
        /\ ~tasks[i].trapped
        /\ tasks[i].ops = MaxOps
        /\ tasks[i].pend = <<>>
        /\ TaskWire(i) = <<Frame("choke", tasks[i].session, i, 0)>>
        /\ ~connClosed

\* A frame f of a response stream comes from an earlier call than g: Write
\* numbers its chunks by call, and ErrorMsg or Close is the last call that
\* produces frames, the error frame coming before the choke.
Before(f, g) ==
    \/ f.type = "chunk" /\ g.type = "chunk" /\ f.arg < g.arg
    \/ f.type = "chunk" /\ g.type \in {"error", "choke"}
    \/ f.type = "error" /\ g.type = "choke"

\* C12: the frames of one response stream are on the wire in the order of the
\* calls of Write, ErrorMsg and Close that produced them, whatever frames of
\* another session and heartbeats of the worker come between them.
ResponseInCallOrder ==
    \A i \in DOMAIN tasks :
        LET w == TaskWire(i) IN
        \A j, k \in DOMAIN w : j < k => Before(w[j], w[k])

InterleavedWitness ==
    \E a, b, c, d \in DOMAIN wire :
        /\ a < b /\ b < c /\ c < d
        /\ wire[a].task = 1
        /\ wire[b].task = 2
        /\ wire[c].type = "heartbeat"
        /\ wire[d].task = 1
        /\ Len(TaskWire(2)) = 2

\* C13: when the task of Resolve has returned, exactly one ResolveResult was
\* delivered on the channel and the channel is closed.
ResolveYieldsOnceThenCloses ==
    resolveTask = "done" => (Len(Out.got) = 1 /\ Out.closed)

\* C14: once the task has read end-of-stream from a connection that carried no
\* chunk and no choke, it has left its loop to deliver a result with
\* success = false.
HangupEndsResolve ==
    (eosReads > 0 /\ fed = <<>>) =>
        (resolveTask \in {"send", "done"} /\ ~resolveresult.success)

\* The frames are chunks ended by a choke.
EndedByChoke(f) ==
    /\ f # <<>>
    /\ f[Len(f)].type = "choke"
    /\ \A k \in 1..(Len(f) - 1) : f[k].type = "chunk"

Decodable(f) == {k \in DOMAIN f : f[k].type = "chunk" /\ f[k].payload # Junk}

LastDecoded(f) ==
    IF Decodable(f) = {} THEN ZeroResult
    ELSE LET k == CHOOSE m \in Decodable(f) : \A n \in Decodable(f) : n <= m
         IN [success |-> TRUE, info |-> f[k].payload[2]]

\* C15: for chunks ended by a choke, the result the task delivers is the last
\* chunk that decoded, with success = true, and the zero result with
\* success = false when none decoded.
ResolveKeepsLastDecoded ==
    (resolveTask \in {"send", "done"} /\ EndedByChoke(fed)) =>
        resolveresult = LastDecoded(fed)

\* C16: the frames handed to the output side are the frames enqueued, each
\* once and in enqueue order; when Drain has returned within its grace period
\* every frame enqueued before it was called has been handed over and the
\* output side is closed, so the consumer's range loop ends.
DrainDelivers ==
    /\ IsPrefix(bufOut.got, queued)
    /\ drain = "returned" =>
          (bufOut.got = queued /\ Len(queued) = expected /\ bufOut.closed)
    /\ exit => bufOut.closed

DrainWitness ==
    /\ drain = "returned"
    /\ exit
    /\ bufOut.got = <<"m1", "m2", "m1">>

\* C17: a request stream installed in the session table is only ever removed,
\* never replaced: an invoke frame for a session that has an entry installs
\* no new stream (and so starts no second handler task for the session).
NoDuplicateInvoke ==
    [][\A s \in Sessions :
          sessions[s] # 0 => sessions'[s] \in {sessions[s], 0}]_vars

\* C18: when the loop has received end-of-stream from the socket's read
\* channel, stop has been requested (by an earlier Stop, or else by the loop
\* itself on seeing the end), so the loop does not select the closed channel
\* again and again while it waits for the disown timer.
ReadEndStops == readEnd => stopped

\* C19: the disown timer is armed only while no inbound heartbeat has been
\* processed since the last heartbeat was sent, and the loop takes the disown
\* branch (a receive from disownTimer.C) only then.
DisownOnlyUnanswered ==
    [][/\ disownTimer'.armed => ~replied'
       /\ (disownTimer.fired /\ ~disownTimer'.fired) => ~replied]_vars

\* C20: when the loop receives a chunk or choke frame whose session is not in
\* the session table, the table, every request stream and handler task, the
\* timers, the stopped signal and the socket stay as they are and nothing is
\* put on the wire.
UnknownSessionDropped ==
    [][\A m \in InboundFrames :
          (m.type \in {"chunk", "choke"} /\ sessions[m.session] = 0 /\ LoopRead(m))
              => UNCHANGED <<sessions, tasks, timerVars, stopVars, wire>>]_vars

UnknownChunkWitness ==
    /\ chunksIn = 1
    /\ Len(tasks) = 1
    /\ sessions[tasks[1].session] = 1
    /\ arrived[1].chunks = <<>>
    /\ tasks[1].queue = <<>>
    /\ tasks[1].readLog = <<>>

====
